---- MODULE Spec2Model ----
(***************************************************************************)
(* Archive extraction of dsu (src/src/xtract.rs): XtractArgs::run,         *)
(* process, get_destination and the extractors, as a state machine over a  *)
(* small file system; with it the restore command (src/src/restore.rs,     *)
(* src/src/file_keeper.rs) and the disk-usage report (src/src/hog.rs).     *)
(*                                                                         *)
(* Strings are sequences of one-character strings, so that extension()     *)
(* and to_lowercase() work on characters.  A path (PathBuf) is a sequence  *)
(* of components; a place in the file system is the sequence of names from *)
(* the root.                                                               *)
(***************************************************************************)
EXTENDS Integers, Sequences, FiniteSets, TLC

VARIABLES
    archive,      \* XtractArgs.archive: the archive's path (one name, relative)
    destination,  \* XtractArgs.destination: the destination hint
    dry,          \* the dry flag of the arguments (XtractArgs.dry, RestoreArgs.dry)
    fs,           \* the file system: place -> node
    fs0,          \* the file system when the call started (history)
    fault,        \* the class of system call the environment makes fail
    pc,           \* the statement the call is at
    extractor,    \* the extractor process() selected ("" before that)
    dest,         \* what get_destination returned: <<>> or <<path>>
    opened,       \* the entries of the open archive handle (zip, rar)
    idx,          \* the loop index of the entry loop (zip, rar), from 1
    staging,      \* the TempDir of extract_tar7z: <<>> or <<place>>
    tar_path,     \* extract_tar's `archive` argument: <<>> or <<place>>
    result,       \* "" while running, then "Ok" or the failure
    source,       \* RestoreArgs.source: the backup's path
    target,       \* RestoreArgs.target: Option<PathBuf>, rewritten by validate_paths
    target0,      \* the target argument as it was given (history)
    limit,        \* HogArgs.limit
    items,        \* hog: the vector of (path, size) items
    hog_i,        \* hog: the counter `i` of the printing loop
    printed       \* the lines printed so far (hog: entries; extract_rar: headers)

\* the state of a restore call and of a hog call
restore_vars == <<source, target, target0>>
hog_vars == <<limit, items, hog_i, printed>>

vars == <<archive, destination, dry, fs, fs0, fault, pc, extractor, dest,
          opened, idx, staging, tar_path, result, restore_vars, hog_vars>>

----------------------------------------------------------------------------
(* Bounds *)

\* entries in one tar/zip/rar archive
MaxEntries == 2
\* entries of the directory hog reports on
MaxItems == 3
\* the size of one of them
MaxSize == 2
\* HogArgs.limit
MaxLimit == 3
\* immediate members of one 7z archive
MaxMembers == 2

----------------------------------------------------------------------------
(* Strings *)

None == <<>>
Some(v) == <<v>>

UpperChars == <<"A", "G", "I", "P", "R", "T", "X", "Z">>
LowerChars == <<"a", "g", "i", "p", "r", "t", "x", "z">>

\* str::to_lowercase, character by character
to_lowercase(s) ==
    [k \in 1..Len(s) |->
        IF \E u \in 1..Len(UpperChars) : UpperChars[u] = s[k]
        THEN LowerChars[CHOOSE u \in 1..Len(UpperChars) : UpperChars[u] = s[k]]
        ELSE s[k]]

Dot(stem, ext) == stem \o <<".">> \o ext

\* the literals of the match in process()
S_tar == <<"t", "a", "r">>
S_zip == <<"z", "i", "p">>
S_rar == <<"r", "a", "r">>
S_7z == <<"7", "z">>
S_gz == <<"g", "z">>
S_tgz == <<"t", "g", "z">>
S_bz2 == <<"b", "z", "2">>
S_tbz == <<"t", "b", "z">>
S_tbz2 == <<"t", "b", "z", "2">>
S_xz == <<"x", "z">>
S_txz == <<"t", "x", "z">>
S_lz4 == <<"l", "z", "4">>
S_tlz4 == <<"t", "l", "z", "4">>
S_zst == <<"z", "s", "t">>
S_tzst == <<"t", "z", "s", "t">>
S_tar_7z == Dot(S_tar, S_7z)
S_tar_gz == Dot(S_tar, S_gz)
S_tar_bz2 == Dot(S_tar, S_bz2)
S_tar_xz == Dot(S_tar, S_xz)
S_tar_lz4 == Dot(S_tar, S_lz4)
S_tar_zst == Dot(S_tar, S_zst)

\* the index of the last "." of s, 0 when there is none
LastDot(s) ==
    IF \E k \in 1..Len(s) : s[k] = "."
    THEN CHOOSE k \in 1..Len(s) :
            s[k] = "." /\ \A j \in (k + 1)..Len(s) : s[j] # "."
    ELSE 0

\* Path::extension of a file name: what follows the last ".", unless there
\* is no "." or nothing stands before it
extension_of_name(name) ==
    IF LastDot(name) <= 1
    THEN None
    ELSE Some(SubSeq(name, LastDot(name) + 1, Len(name)))

----------------------------------------------------------------------------
(* Paths *)

ROOT == <<"/">>
CUR == <<".">>
PARENT == <<".", ".">>

IsNormal(c) == c # ROOT /\ c # CUR /\ c # PARENT

\* Path::file_name: the last component when it is a normal one
file_name(p) ==
    IF p # <<>> /\ IsNormal(p[Len(p)]) THEN Some(p[Len(p)]) ELSE None

\* Path::extension
extension(p) ==
    IF file_name(p) = None THEN None ELSE extension_of_name(file_name(p)[1])

\* Path::join: an absolute argument replaces the path
join(p, q) == IF q # <<>> /\ q[1] = ROOT THEN q ELSE p \o q

\* the working directory of the process
W == <<"w">>
CWD == <<W>>

RECURSIVE Walk(_, _)
Walk(base, p) ==
    IF p = <<>> THEN base
    ELSE LET c == Head(p) IN
         Walk(IF c = ROOT THEN <<>>
              ELSE IF c = CUR THEN base
              ELSE IF c = PARENT
                   THEN (IF base = <<>> THEN <<>>
                         ELSE SubSeq(base, 1, Len(base) - 1))
              ELSE Append(base, c),
              Tail(p))

\* the place a path denotes for the operating system
Resolve(p) == Walk(CWD, p)

IsPrefix(p, q) == Len(p) <= Len(q) /\ SubSeq(q, 1, Len(p)) = p

Prefixes(q) == {SubSeq(q, 1, k) : k \in 0..Len(q)}

----------------------------------------------------------------------------
(* File contents *)

\* What a file holds.  fmt: "container" (tar/zip/rar entries), "gz" (a gzip
\* stream of `inner`), "7z" (members), "raw" (plain bytes, told apart by id),
\* "garbage" (no archive at all), "none" (a directory has no content).
Blob(f, i, es, ms, n) ==
    [fmt |-> f, inner |-> i, entries |-> es, members |-> ms, id |-> n]

NoData == Blob("none", "", <<>>, {}, 0)
Garbage == Blob("garbage", "", <<>>, {}, 0)
Raw(n) == Blob("raw", "", <<>>, {}, n)
Container(es) == Blob("container", "", es, {}, 0)
SevenZ(ms) == Blob("7z", "", <<>>, ms, 0)
\* gzip compression of b, and what GzDecoder yields for it
Gz(b) == [b EXCEPT !.fmt = "gz", !.inner = b.fmt]
Gunzip(g) == [g EXCEPT !.fmt = g.inner, !.inner = ""]

DirNode == [kind |-> "dir", data |-> NoData, mode |-> None]
FileNode(b, m) == [kind |-> "file", data |-> b, mode |-> m]

\* names inside archives
N_a == <<"a">>
N_btxt == Dot(<<"b">>, <<"t", "x", "t">>)
N_evil == <<"e", "v", "i", "l">>
N_abs == <<"a", "b", "s">>
N_c == <<"c">>

Entry(p, d, m) == [path |-> p, dir |-> d, mode |-> m, id |-> 0]

\* a/b.txt, with unix permission bits 0o644
E_ab == Entry(<<N_a, N_btxt>>, FALSE, Some(420))
\* a/
E_a == Entry(<<N_a>>, TRUE, None)
\* ../evil
E_up == Entry(<<PARENT, N_evil>>, FALSE, None)
\* /abs
E_abs == Entry(<<ROOT, N_abs>>, FALSE, None)

\* c
E_c == Entry(<<N_c>>, FALSE, None)

EntryUniverse == {E_ab, E_a, E_up, E_abs, E_c}

Containers ==
    {Container(es) : es \in UNION {[1..n -> EntryUniverse] : n \in 0..MaxEntries}}

\* the entries of an open archive handle: entry k carries the bytes Raw(k)
Decode(b) == [k \in 1..Len(b.entries) |-> [b.entries[k] EXCEPT !.id = k]]

\* members of 7z archives and what each holds
M_xtar == Dot(<<"x">>, S_tar)
M_ytar == Dot(<<"y">>, S_tar)
M_read == <<"r", "e", "a", "d">>
MemberUniverse == {M_xtar, M_ytar, M_read}

MemberBlob(m) ==
    IF m = M_xtar THEN Container(<<E_ab>>)
    ELSE IF m = M_ytar THEN Container(<<E_a, E_abs>>)
    ELSE Raw(0)

SevenZs ==
    {SevenZ(ms) : ms \in {s \in SUBSET MemberUniverse : Cardinality(s) <= MaxMembers}}

Gzs == {Gz(Raw(0)), Gz(Container(<<E_ab>>)), Gz(Container(<<E_a, E_up>>))}

Blobs == Containers \cup SevenZs \cup Gzs \cup {Garbage}

----------------------------------------------------------------------------
(* The file system *)

Put(f, place, node) ==
    [x \in DOMAIN f \cup {place} |-> IF x = place THEN node ELSE f[x]]

\* faulty variant of is_file: anything that exists passes, for the
\* sensitivity of C14
is_file_or_dir(f, p) == Resolve(p) \in DOMAIN f

exists(f, p) == Resolve(p) \in DOMAIN f
is_file(f, p) == exists(f, p) /\ f[Resolve(p)].kind = "file"

\* fs::create_dir_all succeeds: no ancestor is a regular file, and the
\* environment lets directories be made when one is missing
CanCreateDirAll(f, place) ==
    /\ \A q \in Prefixes(place) : q \in DOMAIN f => f[q].kind = "dir"
    /\ place \in DOMAIN f \/ fault # "mkdir"

CreateDirAll(f, place) ==
    [x \in DOMAIN f \cup Prefixes(place) |->
        IF x \in DOMAIN f THEN f[x] ELSE DirNode]

\* File::create succeeds: the parent is a directory and the place is not one
CanCreateFile(f, place) ==
    /\ place # <<>>
    /\ SubSeq(place, 1, Len(place) - 1) \in DOMAIN f
    /\ f[SubSeq(place, 1, Len(place) - 1)].kind = "dir"
    /\ place \in DOMAIN f => f[place].kind = "file"

\* everything that differs between two file systems
Changed(f, g) ==
    {x \in DOMAIN f \cup DOMAIN g :
        x \notin DOMAIN f \/ x \notin DOMAIN g \/ f[x] # g[x]}

\* faulty variant of DropTempDir: the directory is kept (as after
\* TempDir::into_path), for the sensitivity of C5
DropTempDir_kept(f, st) == f

\* TempDir's Drop: the directory and all it holds are removed
DropTempDir(f, st) ==
    IF st = None THEN f
    ELSE [x \in {y \in DOMAIN f : ~IsPrefix(st[1], y)} |-> f[x]]

----------------------------------------------------------------------------
(* Requests *)

X == <<"x">>

ArchiveNames ==
    { Dot(X, S_tar), Dot(X, S_zip), Dot(X, S_rar), Dot(X, S_7z),
      Dot(X, S_tar_7z), Dot(X, S_gz), Dot(X, S_tgz), Dot(X, S_tar_gz),
      Dot(X, S_bz2), Dot(X, S_tbz), Dot(X, S_tbz2), Dot(X, S_tar_bz2),
      Dot(X, S_xz), Dot(X, S_txz), Dot(X, S_tar_xz),
      Dot(X, S_lz4), Dot(X, S_tlz4), Dot(X, S_tar_lz4),
      Dot(X, S_zst), Dot(X, S_tzst), Dot(X, S_tar_zst),
      Dot(<<"X">>, <<"X", "Z">>), Dot(X, <<"Z", "i", "p">>),
      Dot(X, <<"x", "y", "z">>), X, Dot(<<>>, S_zip),
      Dot(<<"X">>, <<"Z", "I", "P">>), Dot(<<"A">>, <<"T", "G", "Z">>),
      Dot(Dot(<<"X">>, <<"T", "A", "R">>), <<"G", "Z">>) }

N_out == <<"o", "u", "t">>
N_outd == Dot(N_out, <<"d">>)
N_tmp == <<"t", "m", "p">>
\* the literal "file.tar.gz" of extract_targz
N_file_tar_gz == Dot(<<"f", "i", "l", "e">>, S_tar_gz)
\* the name tempdir() gives the staging directory
N_staging == <<".", "t", "m", "p", "0">>

\* destination hints: "." (the default), "/out", "out.d"
Hints == {<<CUR>>, <<ROOT, N_out>>, <<N_outd>>}

\* what stands at destinationHint/archiveFileName before the call
PreDest == {"absent", "dir", "file"}

BaseFs == [x \in {<<>>, CWD, <<N_tmp>>} |-> DirNode]

\* what stands at the archive path: a regular file holding a, a directory,
\* or nothing
WithArchive(f, name, k, a) ==
    IF k = "missing" THEN f
    ELSE IF k = "dir" THEN Put(f, Resolve(<<name>>), DirNode)
    ELSE Put(f, Resolve(<<name>>), FileNode(a, None))

WithPreDest(f, hint, name, pre) ==
    IF pre = "absent" \/ exists(f, join(hint, <<name>>)) THEN f
    ELSE IF pre = "dir" THEN CreateDirAll(f, Resolve(join(hint, <<name>>)))
    ELSE Put(CreateDirAll(f, Resolve(hint)), Resolve(join(hint, <<name>>)),
             FileNode(Raw(0), None))

\* a file named file.tar.gz in the working directory, or none (NoData)
WithFileTarGz(f, t) ==
    IF t = NoData THEN f ELSE Put(f, Resolve(<<N_file_tar_gz>>), FileNode(t, None))

\* the state a call starts in
Start(name, k, a, hint, pre, t, d, flt, entry) ==
    /\ archive = <<name>>
    /\ destination = hint
    /\ dry = d
    /\ fs = WithFileTarGz(
                WithPreDest(WithArchive(BaseFs, name, k, a), hint, name, pre), t)
    /\ fs0 = fs
    /\ fault = flt
    /\ pc = entry
    /\ extractor = IF entry = "tempdir" THEN "extract_tar7z" ELSE ""
    /\ dest = None
    /\ opened = <<>>
    /\ idx = 0
    /\ staging = None
    /\ tar_path = None
    /\ result = ""
    /\ source = <<>>
    /\ target = None
    /\ target0 = None
    /\ limit = 0
    /\ items = <<>>
    /\ hog_i = 0
    /\ printed = <<>>

\* the program is started with any request, in any of the file systems
Init ==
    \E name \in ArchiveNames, k \in {"file", "missing", "dir"}, a \in Blobs,
       hint \in Hints, pre \in PreDest,
       t \in {NoData, Gz(Container(<<E_a>>))},
       d \in BOOLEAN, flt \in {"none", "mkdir"} :
        /\ k # "file" => a = Garbage
        /\ hint # <<ROOT, N_out>> => pre = "absent"
        /\ Start(name, k, a, hint, pre, t, d, flt, "run")

----------------------------------------------------------------------------
(* XtractArgs *)

\* a function returns: its locals are dropped, the TempDir among them
Return(res, f) ==
    /\ pc' = "done"
    /\ result' = res
    /\ fs' = DropTempDir(f, staging)

\* <XtractArgs as Runnable>::run
run ==
    /\ pc = "run"
    /\ IF is_file(fs, archive)
       THEN pc' = "process" /\ UNCHANGED <<fs, result>>
       ELSE Return("ArchiveNotFound", fs)
    /\ UNCHANGED <<restore_vars, hog_vars>>
    /\ UNCHANGED <<archive, destination, dry, fs0, fault, extractor, dest,
                   opened, idx, staging, tar_path>>

Planned ==
    { S_bz2, S_tbz, S_tbz2, S_tar_bz2, S_xz, S_txz, S_tar_xz,
      S_lz4, S_tlz4, S_tar_lz4, S_zst, S_tzst, S_tar_zst }

\* the extensions of the arms that call an extractor
Recognized ==
    { S_tar, S_zip, S_rar, S_7z, S_tar_7z, S_gz, S_tgz, S_tar_gz }

\* faulty variant of Dispatch: the arm of the zst family is missing, for the
\* sensitivity of C12
Dispatch_no_zst_arm(e) ==
    IF e = S_tar THEN "extract_tar"
    ELSE IF e = S_zip THEN "extract_zip"
    ELSE IF e = S_rar THEN "extract_rar"
    ELSE IF e = S_7z THEN "extract_7z"
    ELSE IF e = S_tar_7z THEN "extract_tar7z"
    ELSE IF e = S_gz THEN "extract_gz"
    ELSE IF e = S_tgz \/ e = S_tar_gz THEN "extract_targz"
    ELSE IF e \in Planned \ {S_zst, S_tzst, S_tar_zst} THEN "planned"
    ELSE "unsupported"

\* the match of process(): the arm a lower-cased extension selects
Dispatch(e) ==
    IF e = S_tar THEN "extract_tar"
    ELSE IF e = S_zip THEN "extract_zip"
    ELSE IF e = S_rar THEN "extract_rar"
    ELSE IF e = S_7z THEN "extract_7z"
    ELSE IF e = S_tar_7z THEN "extract_tar7z"
    ELSE IF e = S_gz THEN "extract_gz"
    ELSE IF e = S_tgz \/ e = S_tar_gz THEN "extract_targz"
    ELSE IF e \in Planned THEN "planned"
    ELSE "unsupported"

\* the first statement of each extractor
FirstStatement(x) ==
    IF x = "extract_targz" THEN "targz"
    ELSE IF x = "extract_tar7z" THEN "tempdir"
    ELSE "get_destination"

\* faulty variant of Selected: the extension is matched as it is written,
\* for the sensitivity of C13
Selected_as_written(a) ==
    IF extension(a) = None THEN ""
    ELSE Dispatch(extension(a)[1])

\* the arm process() takes for an archive path ("" when it has no extension)
Selected(a) ==
    IF extension(a) = None THEN ""
    ELSE Dispatch(to_lowercase(extension(a)[1]))

\* XtractArgs::process, with XtractArgs::unsupported
process ==
    /\ pc = "process"
    /\ IF Selected(archive) = ""
       THEN Return("NoExtension", fs) /\ UNCHANGED extractor
       ELSE IF Selected(archive) = "planned"
       THEN Return("PlannedNotImplemented", fs) /\ UNCHANGED extractor
       ELSE IF Selected(archive) = "unsupported"
       THEN Return("UnsupportedFormat", fs) /\ UNCHANGED extractor
       ELSE /\ extractor' = Selected(archive)
            /\ pc' = FirstStatement(Selected(archive))
            /\ UNCHANGED <<fs, result>>
    /\ UNCHANGED <<restore_vars, hog_vars>>
    /\ UNCHANGED <<archive, destination, dry, fs0, fault, dest,
                   opened, idx, staging, tar_path>>

\* faulty variant of DestinationPath: the archive's file stem instead of
\* its full file name, for the sensitivity of C7
DestinationPath_stem(hint, a) ==
    join(hint, <<SubSeq(file_name(a)[1], 1, LastDot(file_name(a)[1]) - 1)>>)

\* the path get_destination computes
DestinationPath(hint, a) == join(hint, <<file_name(a)[1]>>)

\* faulty variant of GetDestination: the directory is made by create_dir
\* with no test of its existence first, for the sensitivity of C15
GetDestination_create_dir(f, hint, a) ==
    LET d == DestinationPath(hint, a) IN
    IF extension(hint) # None
    THEN [res |-> "InvalidDestination", path |-> None, fs |-> f]
    ELSE IF ~exists(f, d) /\ CanCreateDirAll(f, Resolve(d))
    THEN [res |-> "Ok", path |-> Some(d), fs |-> CreateDirAll(f, Resolve(d))]
    ELSE [res |-> "IOFailure", path |-> None, fs |-> f]

\* XtractArgs::get_destination as a function of the file system, the hint
\* and the archive path: the value returned and the file system left
GetDestination(f, hint, a) ==
    LET d == DestinationPath(hint, a) IN
    IF extension(hint) # None
    THEN [res |-> "InvalidDestination", path |-> None, fs |-> f]
    ELSE IF exists(f, d)
    THEN [res |-> "Ok", path |-> Some(d), fs |-> f]
    ELSE IF CanCreateDirAll(f, Resolve(d))
    THEN [res |-> "Ok", path |-> Some(d), fs |-> CreateDirAll(f, Resolve(d))]
    ELSE [res |-> "IOFailure", path |-> None, fs |-> f]

\* XtractArgs::get_destination, called first by extract_tar, extract_zip,
\* extract_rar, extract_7z and extract_gz
get_destination ==
    /\ pc = "get_destination"
    /\ LET g == GetDestination(fs, destination, archive) IN
       IF g.res = "Ok"
       THEN fs' = g.fs /\ dest' = g.path /\ pc' = "open" /\ UNCHANGED result
       ELSE Return(g.res, fs) /\ UNCHANGED dest
    /\ UNCHANGED <<restore_vars, hog_vars>>
    /\ UNCHANGED <<archive, destination, dry, fs0, fault, extractor,
                   opened, idx, staging, tar_path>>

----------------------------------------------------------------------------
(* Writing one archive entry *)

Outcome(f, k) == [fs |-> f, ok |-> k]

\* faulty variant of WriteEntry: a file that is already there is kept as it
\* is (as with create_new and the error dropped), for the sensitivity of C20
WriteEntry_keep_existing(f, place, e) ==
    IF e.dir
    THEN IF CanCreateDirAll(f, place)
         THEN Outcome(CreateDirAll(f, place), TRUE)
         ELSE Outcome(f, FALSE)
    ELSE IF place = <<>> \/ ~CanCreateDirAll(f, SubSeq(place, 1, Len(place) - 1))
         THEN Outcome(f, FALSE)
         ELSE LET g == CreateDirAll(f, SubSeq(place, 1, Len(place) - 1)) IN
              IF place \in DOMAIN g /\ g[place].kind = "file"
              THEN Outcome(g, TRUE)
              ELSE IF CanCreateFile(g, place)
              THEN Outcome(Put(g, place, FileNode(Raw(e.id), e.mode)), TRUE)
              ELSE Outcome(g, FALSE)

\* An entry is materialised at a place: a directory entry by create_dir_all,
\* a file entry by create_dir_all of its parent, the creation of the file,
\* the copy of its bytes and the setting of its permission bits.
WriteEntry(f, place, e) ==
    IF e.dir
    THEN IF CanCreateDirAll(f, place)
         THEN Outcome(CreateDirAll(f, place), TRUE)
         ELSE Outcome(f, FALSE)
    ELSE IF place = <<>> \/ ~CanCreateDirAll(f, SubSeq(place, 1, Len(place) - 1))
         THEN Outcome(f, FALSE)
         ELSE LET g == CreateDirAll(f, SubSeq(place, 1, Len(place) - 1)) IN
              IF CanCreateFile(g, place)
              THEN Outcome(Put(g, place, FileNode(Raw(e.id), e.mode)), TRUE)
              ELSE Outcome(g, FALSE)

----------------------------------------------------------------------------
(* extract_tar *)

IsFileEntry(e) == ~e.dir
IsDirEntry(e) == e.dir

\* tar::Archive::unpack takes the directories last
TarOrder(es) == SelectSeq(es, IsFileEntry) \o SelectSeq(es, IsDirEntry)

\* tar::Entry::unpack_in: an entry with a ".." component is skipped, root
\* and "." components are dropped
TarTarget(e) ==
    IF \E k \in 1..Len(e.path) : e.path[k] = PARENT
    THEN None
    ELSE Some(SelectSeq(e.path, IsNormal))

RECURSIVE TarUnpackFrom(_, _, _)
TarUnpackFrom(f, dst, es) ==
    IF es = <<>> THEN Outcome(f, TRUE)
    ELSE LET t == TarTarget(Head(es)) IN
         IF t = None \/ t = Some(<<>>)
         THEN TarUnpackFrom(f, dst, Tail(es))
         ELSE LET r == WriteEntry(f, dst \o t[1], Head(es)) IN
              IF r.ok THEN TarUnpackFrom(r.fs, dst, Tail(es)) ELSE r

\* tar::Archive::unpack(dst): every entry in turn, until one fails
TarUnpack(f, dst, es) == TarUnpackFrom(f, dst, TarOrder(es))

\* File::open of place and the decoding of what it holds as a container
OpensAs(f, place, fmt) ==
    place \in DOMAIN f /\ f[place].kind = "file" /\ f[place].data.fmt = fmt

\* faulty variant of TarSource: the argument is ignored, for the
\* sensitivity of C11
TarSource_self == Resolve(archive)

\* the file extract_tar opens: its argument, or self.archive
TarSource == IF tar_path = None THEN Resolve(archive) ELSE tar_path[1]

\* XtractArgs::extract_tar after get_destination: open and unpack
extract_tar ==
    /\ pc = "open"
    /\ extractor \in {"extract_tar", "extract_tar7z"}
    /\ IF OpensAs(fs, TarSource, "container")
       THEN LET r == TarUnpack(fs, Resolve(dest[1]), Decode(fs[TarSource].data)) IN
            Return(IF r.ok THEN "Ok" ELSE "IOFailure", r.fs)
       ELSE Return("IOFailure", fs)
    /\ UNCHANGED <<restore_vars, hog_vars>>
    /\ UNCHANGED <<archive, destination, dry, fs0, fault, extractor, dest,
                   opened, idx, staging, tar_path>>

\* XtractArgs::extract_tar as a function: what the call gives for a request
\* when the file it opens holds b
ExtractTar(f, hint, a, b) ==
    LET g == GetDestination(f, hint, a) IN
    IF g.res # "Ok" THEN [res |-> g.res, fs |-> f]
    ELSE IF b.fmt # "container" THEN [res |-> "IOFailure", fs |-> g.fs]
    ELSE LET r == TarUnpack(g.fs, Resolve(g.path[1]), Decode(b)) IN
         [res |-> IF r.ok THEN "Ok" ELSE "IOFailure", fs |-> r.fs]

----------------------------------------------------------------------------
(* extract_zip *)

RECURSIVE Depth(_, _)
\* the depth below the start after the components of p, -1 once it left
Depth(p, d) ==
    IF p = <<>> THEN d
    ELSE IF Head(p) = PARENT
         THEN (IF d = 0 THEN -1 ELSE Depth(Tail(p), d - 1))
    ELSE IF Head(p) = CUR THEN Depth(Tail(p), d)
    ELSE Depth(Tail(p), d + 1)

\* faulty variant of enclosed_name: the name is taken as it is (as with
\* mangled_name or a plain join), for the sensitivity of C4
enclosed_name_unchecked(e) == Some(e.path)

\* zip::read::ZipFile::enclosed_name: None for an absolute name and for one
\* that climbs above its start
enclosed_name(e) ==
    IF \E k \in 1..Len(e.path) : e.path[k] = ROOT THEN None
    ELSE IF Depth(e.path, 0) < 0 THEN None
    ELSE Some(e.path)

\* File::open and ZipArchive::new
extract_zip_open ==
    /\ pc = "open"
    /\ extractor = "extract_zip"
    /\ IF OpensAs(fs, Resolve(archive), "container")
       THEN /\ opened' = Decode(fs[Resolve(archive)].data)
            /\ idx' = 1
            /\ pc' = "entries"
            /\ UNCHANGED <<fs, result>>
       ELSE Return("IOFailure", fs) /\ UNCHANGED <<opened, idx>>
    /\ UNCHANGED <<restore_vars, hog_vars>>
    /\ UNCHANGED <<archive, destination, dry, fs0, fault, extractor, dest,
                   staging, tar_path>>

\* faulty variant of extract_zip_entry: the failure of an entry is dropped
\* and the loop goes on, for the sensitivity of C16
extract_zip_entry_go_on ==
    /\ pc = "entries"
    /\ extractor = "extract_zip"
    /\ idx <= Len(opened)
    /\ IF enclosed_name(opened[idx]) = None
       THEN idx' = idx + 1 /\ UNCHANGED <<fs, pc, result>>
       ELSE LET r == WriteEntry(fs, Resolve(join(dest[1], opened[idx].path)),
                                opened[idx]) IN
            fs' = r.fs /\ idx' = idx + 1 /\ UNCHANGED <<pc, result>>
    /\ UNCHANGED <<restore_vars, hog_vars>>
    /\ UNCHANGED <<archive, destination, dry, fs0, fault, extractor, dest,
                   opened, staging, tar_path>>

\* the place the zip loop writes entry e to
ZipOutpath(d, e) == join(d, enclosed_name(e)[1])

\* one turn of the loop `for i in 0..archive.len()`
extract_zip_entry ==
    /\ pc = "entries"
    /\ extractor = "extract_zip"
    /\ idx <= Len(opened)
    /\ IF enclosed_name(opened[idx]) = None
       THEN idx' = idx + 1 /\ UNCHANGED <<fs, pc, result>>
       ELSE LET r == WriteEntry(fs, Resolve(ZipOutpath(dest[1], opened[idx])),
                                opened[idx]) IN
            IF r.ok
            THEN fs' = r.fs /\ idx' = idx + 1 /\ UNCHANGED <<pc, result>>
            ELSE Return("IOFailure", r.fs) /\ UNCHANGED idx
    /\ UNCHANGED <<restore_vars, hog_vars>>
    /\ UNCHANGED <<archive, destination, dry, fs0, fault, extractor, dest,
                   opened, staging, tar_path>>

\* the loop is over: Ok(())
extract_zip_return ==
    /\ pc = "entries"
    /\ extractor = "extract_zip"
    /\ idx > Len(opened)
    /\ Return("Ok", fs)
    /\ UNCHANGED <<restore_vars, hog_vars>>
    /\ UNCHANGED <<archive, destination, dry, fs0, fault, extractor, dest,
                   opened, idx, staging, tar_path>>

----------------------------------------------------------------------------
(* extract_rar *)

\* Archive::new(&self.archive).open_for_processing()
extract_rar_open ==
    /\ pc = "open"
    /\ extractor = "extract_rar"
    /\ IF OpensAs(fs, Resolve(archive), "container")
       THEN /\ opened' = Decode(fs[Resolve(archive)].data)
            /\ idx' = 1
            /\ pc' = "entries"
            /\ UNCHANGED <<fs, result>>
       ELSE Return("IOFailure", fs) /\ UNCHANGED <<opened, idx>>
    /\ UNCHANGED <<restore_vars, hog_vars>>
    /\ UNCHANGED <<archive, destination, dry, fs0, fault, extractor, dest,
                   staging, tar_path>>

\* the place the rar loop writes entry e to
RarEntryPath(d, e) == join(d, e.path)

\* the line println! gives for a header: the unpacked size (the bytes of
\* entry k are Raw(k)) and the file name
RarLine(e) == [size |-> e.id, path |-> e.path]

\* faulty variant of extract_rar_entry: a directory header is only skipped,
\* the directory is not made, for the sensitivity of C21
extract_rar_entry_skip_dirs ==
    /\ pc = "entries"
    /\ extractor = "extract_rar"
    /\ idx <= Len(opened)
    /\ printed' = Append(printed, RarLine(opened[idx]))
    /\ LET r == IF opened[idx].dir THEN Outcome(fs, TRUE)
                ELSE WriteEntry(fs, Resolve(RarEntryPath(dest[1], opened[idx])),
                                opened[idx]) IN
       IF r.ok
       THEN fs' = r.fs /\ idx' = idx + 1 /\ UNCHANGED <<pc, result>>
       ELSE Return("IOFailure", r.fs) /\ UNCHANGED idx
    /\ UNCHANGED <<restore_vars, limit, items, hog_i>>
    /\ UNCHANGED <<archive, destination, dry, fs0, fault, extractor, dest,
                   opened, staging, tar_path>>

\* one turn of `while let Some(header) = archive.read_header()?`: the
\* header is reported, then the entry is written
extract_rar_entry ==
    /\ pc = "entries"
    /\ extractor = "extract_rar"
    /\ idx <= Len(opened)
    /\ printed' = Append(printed, RarLine(opened[idx]))
    /\ LET r == WriteEntry(fs, Resolve(RarEntryPath(dest[1], opened[idx])),
                           opened[idx]) IN
       IF r.ok
       THEN fs' = r.fs /\ idx' = idx + 1 /\ UNCHANGED <<pc, result>>
       ELSE Return("IOFailure", r.fs) /\ UNCHANGED idx
    /\ UNCHANGED <<restore_vars, limit, items, hog_i>>
    /\ UNCHANGED <<archive, destination, dry, fs0, fault, extractor, dest,
                   opened, staging, tar_path>>

\* read_header() gave None: Ok(())
extract_rar_return ==
    /\ pc = "entries"
    /\ extractor = "extract_rar"
    /\ idx > Len(opened)
    /\ Return("Ok", fs)
    /\ UNCHANGED <<restore_vars, hog_vars>>
    /\ UNCHANGED <<archive, destination, dry, fs0, fault, extractor, dest,
                   opened, idx, staging, tar_path>>

----------------------------------------------------------------------------
(* extract_7z *)

\* sevenz_rust::decompress_file(archive, dir) can write every member
CanDecompress(f, src, dir) ==
    /\ OpensAs(f, src, "7z")
    /\ dir \in DOMAIN f /\ f[dir].kind = "dir"
    /\ \A m \in f[src].data.members : CanCreateFile(f, Append(dir, m))

\* the members of the archive at src, written into dir
Decompress(f, src, dir) ==
    [x \in DOMAIN f \cup {Append(dir, m) : m \in f[src].data.members} |->
        IF \E m \in f[src].data.members : x = Append(dir, m)
        THEN FileNode(MemberBlob(x[Len(x)]), None)
        ELSE f[x]]

\* XtractArgs::extract_7z after get_destination
extract_7z ==
    /\ pc = "open"
    /\ extractor = "extract_7z"
    /\ IF CanDecompress(fs, Resolve(archive), Resolve(dest[1]))
       THEN Return("Ok", Decompress(fs, Resolve(archive), Resolve(dest[1])))
       ELSE Return("IOFailure", fs)
    /\ UNCHANGED <<restore_vars, hog_vars>>
    /\ UNCHANGED <<archive, destination, dry, fs0, fault, extractor, dest,
                   opened, idx, staging, tar_path>>

----------------------------------------------------------------------------
(* extract_gz *)

\* a file File::create has just truncated
Empty == Blob("empty", "", <<>>, {}, 0)

\* XtractArgs::extract_gz after get_destination: File::open of the archive,
\* File::create of the destination (which truncates it), then the copy of
\* the decoded stream.  When the destination is the archive itself, the
\* decoder either holds the whole stream in its buffer already or reads
\* the truncated file.
extract_gz ==
    /\ pc = "open"
    /\ extractor = "extract_gz"
    /\ LET src == Resolve(archive)
           out == Resolve(dest[1])
           stream == fs[src].data
       IN  IF ~CanCreateFile(fs, out)
           THEN Return("IOFailure", fs)
           ELSE \/ /\ stream.fmt = "gz"
                   /\ Return("Ok", Put(fs, out, FileNode(Gunzip(stream), None)))
                \/ /\ stream.fmt # "gz" \/ out = src
                   /\ Return("IOFailure", Put(fs, out, FileNode(Empty, None)))
    /\ UNCHANGED <<restore_vars, hog_vars>>
    /\ UNCHANGED <<archive, destination, dry, fs0, fault, extractor, dest,
                   opened, idx, staging, tar_path>>

----------------------------------------------------------------------------
(* extract_targz *)

\* the file extract_targz opens
TarGzSource == <<N_file_tar_gz>>
\* the directory extract_targz unpacks into
TarGzTarget == <<CUR>>

\* XtractArgs::extract_targz
extract_targz ==
    /\ pc = "targz"
    /\ LET src == Resolve(TarGzSource) IN
       IF OpensAs(fs, src, "gz") /\ fs[src].data.inner = "container"
       THEN LET r == TarUnpack(fs, Resolve(TarGzTarget),
                               Decode(Gunzip(fs[src].data))) IN
            Return(IF r.ok THEN "Ok" ELSE "IOFailure", r.fs)
       ELSE Return("IOFailure", fs)
    /\ UNCHANGED <<restore_vars, hog_vars>>
    /\ UNCHANGED <<archive, destination, dry, fs0, fault, extractor, dest,
                   opened, idx, staging, tar_path>>

----------------------------------------------------------------------------
(* extract_tar7z *)

\* where tempdir() makes the staging directory
StagingPlace == <<N_tmp, N_staging>>

\* tempdir()
extract_tar7z_tempdir ==
    /\ pc = "tempdir"
    /\ IF fault = "tempdir"
       THEN Return("IOFailure", fs) /\ UNCHANGED staging
       ELSE /\ staging' = Some(StagingPlace)
            /\ fs' = Put(fs, StagingPlace, DirNode)
            /\ pc' = "decompress"
            /\ UNCHANGED result
    /\ UNCHANGED <<restore_vars, hog_vars>>
    /\ UNCHANGED <<archive, destination, dry, fs0, fault, extractor, dest,
                   opened, idx, tar_path>>

\* sevenz_rust::decompress_file(archive, &tpmdir)
extract_tar7z_decompress ==
    /\ pc = "decompress"
    /\ IF CanDecompress(fs, Resolve(archive), staging[1])
       THEN /\ fs' = Decompress(fs, Resolve(archive), staging[1])
            /\ pc' = "scan"
            /\ UNCHANGED result
       ELSE Return("IOFailure", fs)
    /\ UNCHANGED <<restore_vars, hog_vars>>
    /\ UNCHANGED <<archive, destination, dry, fs0, fault, extractor, dest,
                   opened, idx, staging, tar_path>>

\* faulty variant of IsTarMember: any entry with a file name passes, for
\* the sensitivity of C6
IsTarMember_any(place) == file_name(place) # None

\* the test of the scan: the entry's extension is exactly "tar"
IsTarMember(place) == extension(place) = Some(S_tar)

\* the immediate entries of a directory
read_dir(f, dir) == {x \in DOMAIN f : Len(x) = Len(dir) + 1 /\ IsPrefix(dir, x)}

\* the scan of the staging directory; read_dir yields the entries in an
\* order of the file system's choosing, and the first .tar one is taken
extract_tar7z_scan ==
    /\ pc = "scan"
    /\ IF fault = "readdir"
       THEN Return("IOFailure", fs) /\ UNCHANGED tar_path
       ELSE IF \A x \in read_dir(fs, staging[1]) : ~IsTarMember(x)
       THEN Return("NestedArchiveMissingMember", fs) /\ UNCHANGED tar_path
       ELSE /\ \E x \in read_dir(fs, staging[1]) :
                    IsTarMember(x) /\ tar_path' = Some(x)
            /\ pc' = "get_destination"
            /\ UNCHANGED <<fs, result>>
    /\ UNCHANGED <<restore_vars, hog_vars>>
    /\ UNCHANGED <<archive, destination, dry, fs0, fault, extractor, dest,
                   opened, idx, staging>>

----------------------------------------------------------------------------
(* file_keeper::validate_paths and RestoreArgs *)

\* the owner's read bit, 0o400, of a mode
OwnerRead(m) == (m \div 256) % 2 = 1

\* file_keeper::is_readable: metadata() succeeds and the owner may read
\* (a node without recorded bits has the default ones)
is_readable(f, p) ==
    /\ exists(f, p)
    /\ f[Resolve(p)].mode # None => OwnerRead(f[Resolve(p)].mode[1])

\* Path::is_dir
is_dir(f, p) == exists(f, p) /\ f[Resolve(p)].kind = "dir"

\* the `real_target` of validate_paths
RealTarget(tgt) == IF tgt = None THEN <<PARENT>> ELSE tgt[1]

\* <RestoreArgs as DRunnable>::run up to the call of restore():
\* validate_paths(&self.source, &mut self.target, self.dry)
restore_run ==
    /\ pc = "restore_run"
    /\ IF ~is_readable(fs, source)
       THEN Return("ValidationFailed", fs) /\ UNCHANGED target
       ELSE LET real_target == RealTarget(target)
                make == /\ target # None
                        /\ ~exists(fs, real_target)
                        /\ extension(real_target) = None
                        /\ ~dry
                made == make /\ CanCreateDirAll(fs, Resolve(real_target))
                g == IF made THEN CreateDirAll(fs, Resolve(real_target)) ELSE fs
            IN  IF make /\ ~made
                THEN Return("ValidationFailed", fs) /\ UNCHANGED target
                ELSE IF ~dry /\ ~is_readable(g, real_target)
                THEN Return("ValidationFailed", g) /\ UNCHANGED target
                ELSE IF source = real_target
                THEN Return("ValidationFailed", g) /\ UNCHANGED target
                ELSE /\ target' = Some(real_target)
                     /\ fs' = g
                     /\ pc' = "restore"
                     /\ UNCHANGED result
    /\ UNCHANGED <<source, target0, hog_vars>>
    /\ UNCHANGED <<archive, destination, dry, fs0, fault, extractor, dest,
                   opened, idx, staging, tar_path>>

S_bak == <<"b", "a", "k">>

IsDigit(c) == c \in {"0", "1", "2", "3", "4", "5", "6", "7", "8", "9"}

\* \d{4}-\d{2}-\d{2}_\d{2}-\d{2}-\d{2}
IsTimestamp(t) ==
    /\ Len(t) = 19
    /\ \A k \in 1..19 :
          IF k \in {5, 8, 14, 17} THEN t[k] = "-"
          ELSE IF k = 11 THEN t[k] = "_"
          ELSE IsDigit(t[k])

\* filename.ends_with(".bak")
EndsWithBak(n) == Len(n) >= 4 /\ SubSeq(n, Len(n) - 3, Len(n)) = Dot(<<>>, S_bak)

\* the regex ^(.*)\.(<timestamp>)\.bak$ matches the file name
MatchesBackupPattern(n) ==
    /\ Len(n) >= 24
    /\ EndsWithBak(n)
    /\ n[Len(n) - 23] = "."
    /\ IsTimestamp(SubSeq(n, Len(n) - 22, Len(n) - 4))

\* `target_filename`: the first capture, or the name without ".bak"
TargetFilename(n) ==
    IF MatchesBackupPattern(n)
    THEN SubSeq(n, 1, Len(n) - 24)
    ELSE SubSeq(n, 1, Len(n) - 4)

\* Path::with_file_name
with_file_name(p, n) ==
    IF file_name(p) = None THEN Append(p, n)
    ELSE Append(SubSeq(p, 1, Len(p) - 1), n)

\* `target_path`
TargetPath(f, tgt, n) ==
    IF is_dir(f, tgt)
    THEN join(tgt, <<TargetFilename(n)>>)
    ELSE with_file_name(tgt, TargetFilename(n))

\* std::fs::copy succeeds: a regular file is read, a file can be created
CanCopy(f, src, dst) == is_file(f, src) /\ CanCreateFile(f, Resolve(dst))

\* RestoreArgs::restore; the answer to the Confirm prompt is the user's
restore ==
    /\ pc = "restore"
    /\ LET filename == file_name(source)[1]
           target_path == TargetPath(fs, target[1], filename)
       IN  IF ~EndsWithBak(filename) THEN Return("NotABackup", fs)
           ELSE IF dry THEN Return("Ok", fs)
           ELSE \/ exists(fs, target_path) /\ Return("Ok", fs)
                \/ IF CanCopy(fs, source, target_path)
                   THEN Return("Ok", Put(fs, Resolve(target_path),
                                         fs[Resolve(source)]))
                   ELSE Return("IOFailure", fs)
    /\ UNCHANGED <<restore_vars, hog_vars>>
    /\ UNCHANGED <<archive, destination, dry, fs0, fault, extractor, dest,
                   opened, idx, staging, tar_path>>

\* backups: f.bak, f.2024-01-02_03-04-05.bak, f.2024-01-02.bak, and f.zip,
\* which is none
F == <<"f">>
Stamp ==
    << "2", "0", "2", "4", "-", "0", "1", "-", "0", "2", "_",
       "0", "3", "-", "0", "4", "-", "0", "5" >>
SourceNames ==
    { Dot(F, S_bak), Dot(Dot(F, Stamp), S_bak),
      Dot(Dot(F, SubSeq(Stamp, 1, 10)), S_bak), Dot(F, S_zip) }

\* what stands at the source path
WithSource(f, name, k) ==
    IF k = "missing" THEN f
    ELSE IF k = "dir" THEN Put(f, Resolve(<<name>>), DirNode)
    ELSE IF k = "unreadable"
    THEN Put(f, Resolve(<<name>>), FileNode(Raw(1), Some(128)))
    ELSE Put(f, Resolve(<<name>>), FileNode(Raw(1), Some(420)))

\* /out before the call
WithOut(f, pre) ==
    IF pre = "absent" THEN f
    ELSE IF pre = "dir" THEN Put(f, <<N_out>>, DirNode)
    ELSE Put(f, <<N_out>>, FileNode(Raw(0), None))

\* a file named f already there, in every directory
WithOldFiles(f, occupied) ==
    IF ~occupied THEN f
    ELSE [x \in DOMAIN f \cup {Append(d, F) : d \in {y \in DOMAIN f : f[y].kind = "dir"}} |->
             IF x \in DOMAIN f THEN f[x] ELSE FileNode(Raw(0), None)]

\* the target argument: none, ".", "/out", "out.d", or the source itself
TargetArgs(name) ==
    { None, Some(<<CUR>>), Some(<<ROOT, N_out>>), Some(<<N_outd>>),
      Some(<<name>>) }

----------------------------------------------------------------------------
(* HogArgs *)

\* one element of `items`: the entry's path (its rank in the listing of
\* read_dir) and its size
Item(p, s) == [path |-> p, size |-> s]

\* the listings read_dir may give
Listings ==
    UNION { { [k \in 1..n |-> Item(k, sizes[k])] : sizes \in [1..n -> 0..MaxSize] }
            : n \in 0..MaxItems }

RECURSIVE InsertBySize(_, _)
\* x put in front of the first element that is not larger
InsertBySize(x, s) ==
    IF s = <<>> THEN <<x>>
    ELSE IF Head(s).size > x.size THEN <<Head(s)>> \o InsertBySize(x, Tail(s))
    ELSE <<x>> \o s

RECURSIVE SortBySizeDesc(_)
\* items.sort_by(|a, b| size_b.cmp(size_a)): stable, largest first
SortBySizeDesc(s) ==
    IF s = <<>> THEN <<>>
    ELSE InsertBySize(Head(s), SortBySizeDesc(Tail(s)))

\* HogArgs.dir
N_dir == <<"d">>

\* <HogArgs as DRunnable>::run up to the printing loop: the test of the
\* directory, the listing, the sort and the line of the total
hog_run ==
    /\ pc = "hog_run"
    /\ IF ~is_dir(fs, <<N_dir>>)
       THEN Return("NotADirectory", fs) /\ UNCHANGED items
       ELSE /\ items' = SortBySizeDesc(items)
            /\ pc' = "hog_print"
            /\ UNCHANGED <<fs, result>>
    /\ UNCHANGED <<restore_vars, limit, hog_i, printed>>
    /\ UNCHANGED <<archive, destination, dry, fs0, fault, extractor, dest,
                   opened, idx, staging, tar_path>>

\* one turn of `for (path, hsize, size) in items`: the line is printed,
\* then the counter is compared with the limit
hog_print ==
    /\ pc = "hog_print"
    /\ Len(printed) < Len(items)
    /\ printed' = Append(printed, items[Len(printed) + 1])
    /\ IF hog_i = limit
       THEN Return("Ok", fs) /\ UNCHANGED hog_i
       ELSE hog_i' = hog_i + 1 /\ UNCHANGED <<fs, pc, result>>
    /\ UNCHANGED <<restore_vars, limit, items>>
    /\ UNCHANGED <<archive, destination, dry, fs0, fault, extractor, dest,
                   opened, idx, staging, tar_path>>

\* the vector is exhausted: Ok(())
hog_return ==
    /\ pc = "hog_print"
    /\ Len(printed) = Len(items)
    /\ Return("Ok", fs)
    /\ UNCHANGED <<restore_vars, hog_vars>>
    /\ UNCHANGED <<archive, destination, dry, fs0, fault, extractor, dest,
                   opened, idx, staging, tar_path>>

----------------------------------------------------------------------------
(* Specifications *)

\* A call of run().  The arm "tar.7z" of process() cannot be taken (an
\* extension holds no "."), so extract_tar7z takes no step here.
Next ==
    \/ run
    \/ process
    \/ get_destination
    \/ extract_tar
    \/ extract_zip_open
    \/ extract_zip_entry
    \/ extract_zip_return
    \/ extract_rar_open
    \/ extract_rar_entry
    \/ extract_rar_return
    \/ extract_7z
    \/ extract_gz
    \/ extract_targz

Spec == Init /\ [][Next]_vars

\* A call of extract_tar7z() itself, on an existing archive x.tar.7z.
InitTar7z ==
    \E a \in Blobs, hint \in Hints, pre \in PreDest, d \in BOOLEAN,
       flt \in {"none", "mkdir", "tempdir", "readdir"} :
        /\ hint # <<ROOT, N_out>> => pre = "absent"
        /\ Start(Dot(X, S_tar_7z), "file", a, hint, pre, NoData, d, flt, "tempdir")

NextTar7z ==
    \/ extract_tar7z_tempdir
    \/ extract_tar7z_decompress
    \/ extract_tar7z_scan
    \/ get_destination
    \/ extract_tar

SpecTar7z == InitTar7z /\ [][NextTar7z]_vars

\* Two calls of get_destination() in a row, for one request.
get_destination_again ==
    /\ pc = "open" /\ extractor = ""
    /\ LET g == GetDestination(fs, destination, archive) IN
       /\ dest' = g.path
       /\ fs' = g.fs
       /\ result' = g.res
       /\ pc' = "done"
    /\ UNCHANGED <<restore_vars, hog_vars>>
    /\ UNCHANGED <<archive, destination, dry, fs0, fault, extractor,
                   opened, idx, staging, tar_path>>

InitDest ==
    \E name \in ArchiveNames, hint \in Hints, pre \in PreDest, d \in BOOLEAN,
       flt \in {"none", "mkdir"} :
        /\ hint # <<ROOT, N_out>> => pre = "absent"
        /\ Start(name, "file", Garbage, hint, pre, NoData, d, flt, "get_destination")

NextDest ==
    \/ get_destination
    \/ get_destination_again

SpecDest == InitDest /\ [][NextDest]_vars

\* A call of `dsu restore`.
InitRestore ==
    \E name \in SourceNames, k \in {"file", "missing", "dir", "unreadable"},
       pre \in PreDest, occupied \in BOOLEAN, d \in BOOLEAN,
       flt \in {"none", "mkdir"} :
        \E tgt \in TargetArgs(name) :
            /\ tgt # Some(<<ROOT, N_out>>) => pre = "absent"
            /\ source = <<name>>
            /\ target = tgt
            /\ target0 = tgt
            /\ dry = d
            /\ fs = WithOldFiles(WithOut(WithSource(BaseFs, name, k), pre), occupied)
            /\ fs0 = fs
            /\ fault = flt
            /\ pc = "restore_run"
            /\ result = ""
            /\ archive = <<>> /\ destination = <<>> /\ extractor = ""
            /\ dest = None /\ opened = <<>> /\ idx = 0
            /\ staging = None /\ tar_path = None
            /\ limit = 0 /\ items = <<>> /\ hog_i = 0 /\ printed = <<>>

NextRestore ==
    \/ restore_run
    \/ restore

SpecRestore == InitRestore /\ [][NextRestore]_vars

\* A call of `dsu hog`.  Before the listing is taken, `items` holds what
\* read_dir will give.
InitHog ==
    \E listing \in Listings, n \in 0..MaxLimit, k \in {"dir", "file", "missing"} :
        /\ limit = n
        /\ items = listing
        /\ hog_i = 0
        /\ printed = <<>>
        /\ fs = IF k = "missing" THEN BaseFs
                ELSE IF k = "dir" THEN Put(BaseFs, Resolve(<<N_dir>>), DirNode)
                ELSE Put(BaseFs, Resolve(<<N_dir>>), FileNode(Raw(0), None))
        /\ k # "dir" => listing = <<>>
        /\ fs0 = fs
        /\ dry = FALSE
        /\ fault = "none"
        /\ pc = "hog_run"
        /\ result = ""
        /\ archive = <<>> /\ destination = <<>> /\ extractor = ""
        /\ dest = None /\ opened = <<>> /\ idx = 0
        /\ staging = None /\ tar_path = None
        /\ source = <<>> /\ target = None /\ target0 = None

NextHog ==
    \/ hog_run
    \/ hog_print
    \/ hog_return

SpecHog == InitHog /\ [][NextHog]_vars

\* A call of run() on an existing archive x.rar; the program takes its
\* next step as long as it has one.
InitRar ==
    \E a \in Blobs, hint \in Hints, pre \in PreDest, d \in BOOLEAN,
       flt \in {"none", "mkdir"} :
        /\ hint # <<ROOT, N_out>> => pre = "absent"
        /\ Start(Dot(X, S_rar), "file", a, hint, pre, NoData, d, flt, "run")

NextRar ==
    \/ run
    \/ process
    \/ get_destination
    \/ extract_rar_open
    \/ extract_rar_entry
    \/ extract_rar_return

SpecRar == InitRar /\ [][NextRar]_vars /\ WF_vars(NextRar)

----------------------------------------------------------------------------
(* Properties *)

EndsWith(s, suffix) ==
    Len(suffix) <= Len(s) /\ SubSeq(s, Len(s) - Len(suffix) + 1, Len(s)) = suffix

\* the file name of the requested archive
ArchiveName == archive[Len(archive)]
\* the place destinationHint/archiveFileName
RealDestination == Resolve(destination \o <<ArchiveName>>)
\* process() has made its choice
Dispatched == pc \notin {"run", "process"} /\ result # "ArchiveNotFound"
\* what the requested archive held when the call started
ArchiveData == fs0[Resolve(archive)].data
\* a place inside the tree at d, or d itself, or a directory on the way to d
Under(d, x) == IsPrefix(d, x)
OnTheWay(d, x) == IsPrefix(x, d)
\* an entry name made of plain names only
PlainName(e) == \A k \in 1..Len(e.path) : IsNormal(e.path[k])

Extractors ==
    {"extract_tar", "extract_zip", "extract_rar", "extract_7z",
     "extract_tar7z", "extract_gz", "extract_targz"}

\* C1: for every archive name ending in ".tar.gz" process() selects
\* extract_targz, not extract_gz, and for every name ending in ".tar.7z" it
\* selects extract_tar7z, not extract_7z.
C1_CompoundSuffixPrecedence ==
    Dispatched =>
        /\ EndsWith(ArchiveName, Dot(<<>>, S_tar_gz)) => extractor = "extract_targz"
        /\ EndsWith(ArchiveName, Dot(<<>>, S_tar_7z)) => extractor = "extract_tar7z"

\* C2: a request whose archive exists, whose format is in the extension
\* table and whose destination hint has a file extension ends with
\* InvalidDestination, never with success.
C2_ExtensionHintRejected ==
    (/\ pc = "done"
     /\ is_file(fs0, archive)
     /\ Selected(archive) \in Extractors
     /\ extension(destination) # None)
        => result = "InvalidDestination"

\* C3: everything created or written during a run lies inside
\* destinationHint/archiveFileName (the directories leading to it included)
\* or inside the staging directory.
C3_WriteConfinement ==
    \A x \in Changed(fs0, fs) :
        \/ Under(RealDestination, x)
        \/ OnTheWay(RealDestination, x)
        \/ staging # None /\ Under(staging[1], x)

\* the zip loop: entry k is safe, and the place it is written to
ZipSafe(k) == enclosed_name(opened[k]) # None
ZipPlace(k) == Resolve(ZipOutpath(dest[1], opened[k]))
\* the last safe entry written to the place of entry k
ZipLast(k) ==
    CHOOSE j \in k..Len(opened) :
        /\ ZipSafe(j) /\ ZipPlace(j) = ZipPlace(k)
        /\ \A h \in (j + 1)..Len(opened) : ~(ZipSafe(h) /\ ZipPlace(h) = ZipPlace(k))
InZipLoop == extractor = "extract_zip" /\ idx >= 1

\* C4: in zip extraction an entry whose name would escape the destination
\* is skipped: every change of the file system is the work of a safe entry
\* and lies inside the destination, the loop goes on to the entries after
\* it, every safe entry is written, and the call returns success.
C4_ZipSkipsUnsafeEntries ==
    InZipLoop =>
        /\ \A x \in Changed(fs0, fs) :
              \/ OnTheWay(Resolve(dest[1]), x)
              \/ /\ Under(Resolve(dest[1]), x)
                 /\ \E k \in 1..Len(opened) :
                        /\ k < idx \/ (pc = "done" /\ k = idx)
                        /\ ZipSafe(k)
                        /\ OnTheWay(ZipPlace(k), x)
        /\ (pc = "done" /\ fault = "none" /\ fs[Resolve(dest[1])].kind = "dir")
              => /\ result = "Ok"
                 /\ idx = Len(opened) + 1
                 /\ \A k \in 1..Len(opened) : ZipSafe(k) =>
                        /\ ZipPlace(k) \in DOMAIN fs
                        /\ IF opened[k].dir
                           THEN fs[ZipPlace(k)].kind = "dir"
                           ELSE fs[ZipPlace(k)] =
                                  FileNode(Raw(ZipLast(k)), opened[ZipLast(k)].mode)

\* C4 witness: a zip archive with an unsafe entry followed by a safe file
\* entry was extracted with success, and the safe entry is there.
C4_Witness ==
    /\ InZipLoop /\ pc = "done" /\ result = "Ok"
    /\ Len(opened) = 2
    /\ ~ZipSafe(1) /\ ZipSafe(2) /\ ~opened[2].dir
    /\ ZipPlace(2) \in DOMAIN fs

\* C5: when extract_tar7z has returned, on whatever path, the staging
\* directory and everything in it are gone.
C5_StagingReleased ==
    pc = "done" => \A x \in DOMAIN fs : ~Under(StagingPlace, x)

\* C5 witness: the nested tar step failed on I/O after the staging
\* directory was made and filled.
C5_Witness ==
    /\ pc = "done" /\ staging # None /\ tar_path # None
    /\ dest # None /\ result = "IOFailure"

\* C6: when the decompressed 7z archive has no immediate member with
\* extension "tar", extract_tar7z fails with NestedArchiveMissingMember and
\* the file system is as it was before the call.
C6_NoTarMemberLeavesNoTrace ==
    (/\ pc = "done"
     /\ fault \notin {"tempdir", "readdir"}
     /\ ArchiveData.fmt = "7z"
     /\ \A m \in ArchiveData.members : extension(<<m>>) # Some(S_tar))
        => result = "NestedArchiveMissingMember" /\ fs = fs0

\* C6 witness: a 7z archive holding one member that is no .tar was staged
\* and the call failed with NestedArchiveMissingMember.
C6_Witness ==
    /\ pc = "done" /\ staging # None
    /\ ArchiveData.fmt = "7z" /\ ArchiveData.members = {M_read}
    /\ result = "NestedArchiveMissingMember"

C8_DryRunWritesNothing == dry => fs = fs0

\* C9: a well-formed gzip archive, extracted with an extension-less hint
\* into a fresh destination, gives success and a single regular file at the
\* resolved destination holding the decompressed stream.
C9_GzipGivesOneFile ==
    (/\ pc = "done" /\ extractor = "extract_gz"
     /\ ArchiveData.fmt = "gz"
     /\ extension(destination) = None
     /\ RealDestination \notin DOMAIN fs0
     /\ fault = "none")
        => /\ result = "Ok"
           /\ RealDestination \in DOMAIN fs
           /\ fs[RealDestination].kind = "file"
           /\ fs[RealDestination].data = Gunzip(ArchiveData)

\* C10: a well-formed tar.gz archive, extracted into a fresh destination,
\* is the archive that is read: its entries are reproduced under the
\* destination derived from the request, and nothing else decides the
\* result or is touched.
C10_TarGzReadsTheRequest ==
    (/\ pc = "done" /\ extractor = "extract_targz"
     /\ ArchiveData.fmt = "gz" /\ ArchiveData.inner = "container"
     /\ extension(destination) = None
     /\ RealDestination \notin DOMAIN fs0
     /\ fault = "none")
        => /\ result = "Ok"
           /\ \A k \in 1..Len(ArchiveData.entries) :
                 PlainName(ArchiveData.entries[k])
                    => (RealDestination \o ArchiveData.entries[k].path) \in DOMAIN fs
           /\ \A x \in Changed(fs0, fs) :
                 Under(RealDestination, x) \/ OnTheWay(RealDestination, x)

\* the immediate .tar members of the requested 7z archive
TarMembers == {m \in ArchiveData.members : extension(<<m>>) = Some(S_tar)}

\* C11: when the decompressed 7z archive has exactly one immediate .tar
\* member, extract_tar7z gives what extract_tar gives for that member and
\* the same request, the same result and the same file system, and with a
\* fresh destination and no failing system call that result is success.
C11_Tar7zEqualsTarOfMember ==
    (/\ pc = "done" /\ extractor = "extract_tar7z"
     /\ fault \notin {"tempdir", "readdir"}
     /\ ArchiveData.fmt = "7z"
     /\ Cardinality(TarMembers) = 1)
        => LET m == CHOOSE t \in TarMembers : TRUE
               r == ExtractTar(fs0, destination, archive, MemberBlob(m))
           IN  /\ result = r.res
               /\ fs = r.fs
               /\ (/\ fault = "none"
                   /\ extension(destination) = None
                   /\ RealDestination \notin DOMAIN fs0) => result = "Ok"

\* C11 witness: of two members one is a tar, and its entries stand under
\* the resolved destination.
C11_Witness ==
    /\ pc = "done" /\ extractor = "extract_tar7z" /\ result = "Ok"
    /\ ArchiveData.fmt = "7z" /\ ArchiveData.members = {M_ytar, M_read}
    /\ RealDestination \o <<N_abs>> \in DOMAIN fs
    /\ RealDestination \notin DOMAIN fs0

\* the archive's file name ends, whatever the case, in "." and one of exts
NameMatches(exts) ==
    \E s \in exts : EndsWith(to_lowercase(ArchiveName), Dot(<<>>, s))

LowerExtension(a) ==
    IF extension(a) = None THEN a
    ELSE LET n == a[Len(a)] IN
         SubSeq(a, 1, Len(a) - 1) \o
         << SubSeq(n, 1, LastDot(n)) \o to_lowercase(SubSeq(n, LastDot(n) + 1, Len(n))) >>

\* what process() chose, read from the state it left
Choice ==
    IF extractor # "" THEN extractor
    ELSE IF result = "PlannedNotImplemented" THEN "planned"
    ELSE IF result = "UnsupportedFormat" THEN "unsupported"
    ELSE IF result = "NoExtension" THEN ""
    ELSE "other"

\* C13: what process() selects for an archive name, an extractor or a
\* failure, is what it selects for the same name with its extension in
\* lower case: X.ZIP is extracted as zip, A.TGZ as tar.gz.
C13_CaseInsensitive ==
    Dispatched =>
        /\ Choice = Selected(LowerExtension(archive))
        /\ ArchiveName = Dot(<<"X">>, <<"Z", "I", "P">>) => extractor = "extract_zip"
        /\ ArchiveName = Dot(<<"A">>, <<"T", "G", "Z">>) => extractor = "extract_targz"

\* C13 witness: X.ZIP was dispatched to extract_zip.
C13_Witness ==
    /\ Dispatched /\ extractor = "extract_zip"
    /\ ArchiveName = Dot(<<"X">>, <<"Z", "I", "P">>)
    /\ LowerExtension(archive) # archive

\* C14: when the archive path is missing or a directory, run() fails with
\* ArchiveNotFound at once: process() is not reached, no extractor is
\* selected, no destination is resolved, nothing is opened or staged, and
\* the file system stays as it was.
C14_ArchiveNotFoundFirst ==
    (\/ Resolve(archive) \notin DOMAIN fs0
     \/ fs0[Resolve(archive)].kind # "file")
        => /\ pc \in {"run", "done"}
           /\ pc = "done" => result = "ArchiveNotFound"
           /\ extractor = "" /\ dest = None /\ opened = <<>> /\ staging = None
           /\ fs = fs0

\* C14 witness: the archive path is a directory and the call has failed.
C14_Witness ==
    /\ pc = "done" /\ result = "ArchiveNotFound"
    /\ Resolve(archive) \in DOMAIN fs0
    /\ fs0[Resolve(archive)].kind = "dir"

\* C15: a second call of get_destination for the same archive path and
\* hint succeeds, returns the path the first call returned, and leaves the
\* file system as the first call left it.
C15_GetDestinationIdempotent ==
    [][(pc = "open" /\ pc' = "done")
          => (result' = "Ok" /\ dest' = dest /\ fs' = fs)]_vars

\* C15 witness: the first call made the directory, the second has returned.
C15_Witness ==
    /\ pc = "done" /\ extractor = "" /\ result = "Ok"
    /\ dest = Some(destination \o <<ArchiveName>>)
    /\ RealDestination \in DOMAIN fs
    /\ RealDestination \notin DOMAIN fs0

\* the entry loops of extract_zip and extract_rar: the entries that are
\* written, and where
InEntryLoop == extractor \in {"extract_zip", "extract_rar"} /\ idx >= 1
EntryWrites(k) == extractor = "extract_rar" \/ ZipSafe(k)
EntryPlace(k) ==
    IF extractor = "extract_zip" THEN ZipPlace(k)
    ELSE Resolve(RarEntryPath(dest[1], opened[k]))
\* the last of the entries k..n written to the place of entry k
LastUpTo(k, n) ==
    CHOOSE j \in k..n :
        /\ EntryWrites(j) /\ EntryPlace(j) = EntryPlace(k)
        /\ \A h \in (j + 1)..n : ~(EntryWrites(h) /\ EntryPlace(h) = EntryPlace(k))
\* entry k stands at its place, as the entries 1..n left it
StandsUpTo(k, n) ==
    /\ EntryPlace(k) \in DOMAIN fs
    /\ IF opened[k].dir
       THEN fs[EntryPlace(k)].kind = "dir"
       ELSE fs[EntryPlace(k)] =
              FileNode(Raw(LastUpTo(k, n)), opened[LastUpTo(k, n)].mode)

C17_DefaultTargetIsCurrentDir ==
    (target0 = None /\ target # None) =>
        /\ Resolve(target[1]) = CWD
        /\ (pc = "done" /\ result = "Ok" /\ fs # fs0) =>
              LET place == Append(CWD, TargetFilename(file_name(source)[1])) IN
              /\ place \in DOMAIN fs
              /\ fs[place] = fs[Resolve(source)]

\* C18: hog prints at most `limit` entry lines, whatever the limit and the
\* number of entries: with more than `limit` entries exactly `limit` lines
\* are printed, and the lines are the largest entries, in non-increasing
\* order of size.
C18_HogPrintsAtMostLimit ==
    (pc = "done" /\ result = "Ok") =>
        /\ Len(printed) <= limit
        /\ Len(items) > limit => Len(printed) = limit
        /\ \A k \in 1..(Len(printed) - 1) : printed[k].size >= printed[k + 1].size
        /\ \A k \in 1..Len(printed) : \A j \in 1..Len(items) :
              (\A h \in 1..Len(printed) : printed[h].path # items[j].path)
                 => items[j].size <= printed[k].size

\* C19: for every format the destination is resolved after the format and
\* before the selected extractor does anything: no destination without a
\* selected extractor, and no archive opened, nothing staged, nothing
\* written and no success of an extractor without a resolved destination.
C19_DestinationBeforeExtractor ==
    /\ dest # None => extractor # ""
    /\ (/\ extractor # ""
        /\ \/ result = "Ok"
           \/ fs # fs0
           \/ opened # <<>>
           \/ staging # None)
          => dest # None

\* one turn of the zip loop went through: the index moved on by one and
\* the entry it stood on was skipped, or stands at its place in the new
\* state, a directory without content or a file with its bytes, its
\* permission bits and its parent directories
ZipTurnDone ==
    /\ idx' = idx + 1
    /\ IF ~ZipSafe(idx) THEN fs' = fs
       ELSE /\ ZipPlace(idx) \in DOMAIN fs'
            /\ \A q \in Prefixes(ZipPlace(idx)) :
                  q # ZipPlace(idx) => (q \in DOMAIN fs' /\ fs'[q].kind = "dir")
            /\ IF opened[idx].dir
               THEN fs'[ZipPlace(idx)] = DirNode
               ELSE fs'[ZipPlace(idx)] = FileNode(Raw(idx), opened[idx].mode)
            /\ \A x \in Changed(fs, fs') : OnTheWay(ZipPlace(idx), x)

\* the highest index of a safe entry with the name of entry k
ZipHighest(k) ==
    CHOOSE j \in 1..Len(opened) :
        /\ ZipSafe(j) /\ ZipPlace(j) = ZipPlace(k)
        /\ \A h \in 1..Len(opened) :
              (ZipSafe(h) /\ ZipPlace(h) = ZipPlace(k)) => h <= j

\* C20: extract_zip takes the entries by index, from the first to the last,
\* one at a time and each once: every step of the loop either moves the
\* index on by one with the entry it stood on done (a directory with its
\* ancestors and no content for a name ending in '/', a file with its
\* parents for any other safe name), or ends the call, with Ok only past
\* the last entry; and after a successful call a name that occurs twice
\* holds the bytes of its higher index.
C20_ZipVisitsEntriesInOrder ==
    /\ [][(extractor = "extract_zip" /\ pc = "entries")
             => \/ pc' = "entries" /\ idx <= Len(opened) /\ ZipTurnDone
                \/ /\ pc' = "done" /\ idx' = idx
                   /\ result' = "Ok" <=> idx = Len(opened) + 1]_vars
    /\ []((extractor = "extract_zip" /\ pc = "entries") => idx \in 1..(Len(opened) + 1))
    /\ []((extractor = "extract_zip" /\ idx >= 1 /\ pc = "done" /\ result = "Ok")
            => \A k \in 1..Len(opened) : (ZipSafe(k) /\ ~opened[k].dir) =>
                  /\ ZipPlace(k) \in DOMAIN fs
                  /\ fs[ZipPlace(k)].data = Raw(ZipHighest(k)))

\* C20 witness: a zip archive with the same file name twice was extracted.
C20_Witness ==
    /\ extractor = "extract_zip" /\ pc = "done" /\ result = "Ok"
    /\ Len(opened) = 2 /\ idx = 3
    /\ opened[1].path = opened[2].path /\ ~opened[1].dir /\ ZipSafe(1)
    /\ fs[ZipPlace(1)].data = Raw(2)

\* the rar loop: where header k is written, and the lines of the first n
\* headers
RarPlace(k) == Resolve(RarEntryPath(dest[1], opened[k]))
RarLines(n) == [k \in 1..n |-> RarLine(opened[k])]
InRarLoop == extractor = "extract_rar" /\ idx >= 1

\* one turn of the rar loop went through: the index moved on by one, and
\* the header it stood on stands at its place in the new state, a directory
\* without content or a file with its bytes, with its parent directories,
\* nothing else being touched
RarTurnDone ==
    /\ idx' = idx + 1
    /\ RarPlace(idx) \in DOMAIN fs'
    /\ \A q \in Prefixes(RarPlace(idx)) :
          q # RarPlace(idx) => (q \in DOMAIN fs' /\ fs'[q].kind = "dir")
    /\ IF opened[idx].dir
       THEN fs'[RarPlace(idx)] = DirNode
       ELSE fs'[RarPlace(idx)] = FileNode(Raw(idx), opened[idx].mode)
    /\ \A x \in Changed(fs, fs') : OnTheWay(RarPlace(idx), x)

\* C21: extract_rar takes the headers in archive order, each once: every
\* step of the loop reports the header the index stands on and either moves
\* the index on by one with that header done (a directory with its
\* ancestors and no content, or a file with its parents and its bytes at
\* destination.join(name)), or ends the call, with Ok exactly when no
\* header is left; the lines printed are those of the headers read, in
\* order and once each; the loop always ends; and with a fresh destination
\* and no failing system call it ends with success after the last header.
C21_RarTakesEachHeaderOnce ==
    /\ [][(extractor = "extract_rar" /\ pc = "entries")
             => \/ /\ pc' = "entries" /\ idx <= Len(opened)
                   /\ printed' = Append(printed, RarLine(opened[idx]))
                   /\ RarTurnDone
                \/ /\ pc' = "done" /\ idx' = idx
                   /\ result' = "Ok" <=> idx = Len(opened) + 1
                   /\ printed' = IF idx <= Len(opened)
                                 THEN Append(printed, RarLine(opened[idx]))
                                 ELSE printed]_vars
    /\ [](InRarLoop =>
            /\ idx \in 1..(Len(opened) + 1)
            /\ printed = RarLines(IF pc = "done" /\ result # "Ok"
                                  THEN idx ELSE idx - 1))
    /\ []((/\ InRarLoop /\ pc = "done" /\ fault = "none"
           /\ RealDestination \notin DOMAIN fs0)
            => /\ result = "Ok"
               /\ printed = RarLines(Len(opened)))
    /\ (extractor = "extract_rar" /\ pc = "entries") ~> (pc = "done")

\* C21 witness: a rar archive with a directory header and a file header
\* was extracted with success, both were reported and both are in place.
C21_Witness ==
    /\ InRarLoop /\ pc = "done" /\ result = "Ok"
    /\ Len(opened) = 2 /\ idx = 3 /\ Len(printed) = 2
    /\ opened[1].dir /\ ~opened[2].dir
    /\ fs[RarPlace(1)] = DirNode
    /\ fs[RarPlace(2)] = FileNode(Raw(2), opened[2].mode)

\* C22: for every request whose archive is an existing regular file, and
\* every destination hint, the archive file is there after every step of
\* the call, with the content and the permission bits it had before.
C22_ArchiveUntouched ==
    (Resolve(archive) \in DOMAIN fs0 /\ fs0[Resolve(archive)].kind = "file")
        => /\ Resolve(archive) \in DOMAIN fs
           /\ fs[Resolve(archive)] = fs0[Resolve(archive)]

\* C23: whenever get_destination has returned a path, whatever the file
\* system the call started in, that path exists and is a directory, never
\* a regular file.
C23_DestinationIsDirectory ==
    dest # None =>
        /\ Resolve(dest[1]) \in DOMAIN fs
        /\ fs[Resolve(dest[1])].kind = "dir"

====
